---------------------------- MODULE Spec2Model ----------------------------
(* StarScope (src/star_scope.py): one Tk window, one request handler        *)
(* generate_star_chart, and the hover callback of the chart it embeds.      *)
(*                                                                          *)
(* Units.  Magnitudes are integers in tenths of a magnitude.  Marker sizes  *)
(* and ring radii are fixed-point numbers in millionths.  Chart-plane       *)
(* coordinates are integers in hundredths of the horizon radius, so the     *)
(* axes (set_xlim / set_ylim, lines 97-98) span -100..100.  The text of a   *)
(* date entry is a sequence of one-character strings.                       *)
EXTENDS Integers, Sequences, FiniteSets, TLC

VARIABLES
    stars,        \* the module-level DataFrame `stars` (line 25)
    children,     \* canvas_frame.winfo_children(): the widgets of the display area
    grid_var,     \* the IntVar behind the grid checkbox (line 165)
    last,         \* what the most recent call of generate_star_chart did
    lastSuccess,  \* <<>> or <<r>>: the most recent call that returned without error
    reqCount,     \* number of calls of generate_star_chart so far
    lastEvent     \* <<>> or <<e>>: the most recent motion_notify_event handled

vars == <<stars, children, grid_var, last, lastSuccess, reqCount, lastEvent>>

--------------------------------------------------------------------------
(* Settings, lines 17-20 *)

chart_size == 8
max_star_size == 80
limiting_magnitude == 6

(* Bound of the model: calls of generate_star_chart in one run. *)
MaxRequests == 2

--------------------------------------------------------------------------
(* Small helpers *)

Abs(n) == IF n < 0 THEN -n ELSE n

RECURSIVE Pow10(_)
Pow10(n) == IF n = 0 THEN 1 ELSE 10 * Pow10(n - 1)

\* Python's range(start, stop, step) for step > 0, as a sequence
Range(start, stop, step) ==
    LET n == IF stop <= start THEN 0 ELSE (stop - start + step - 1) \div step
    IN  [i \in 1..n |-> start + (i - 1) * step]

SeqToSet(s) == {s[i] : i \in 1..Len(s)}

--------------------------------------------------------------------------
(* datetime.strptime(when_str, '%Y-%m-%d %H:%M'), line 40.                  *)
(* _strptime turns the format into the regular expression                   *)
(*   (\d\d\d\d)-(1[0-2]|0[1-9]|[1-9])-(3[01]|[12]\d|0[1-9]|[1-9]| [1-9])     *)
(*   \s+(2[0-3]|[0-1]\d|\d):([0-5]\d|\d)                                     *)
(* matches it at the start of the string, rejects unconverted trailing      *)
(* data, and builds the date, which rejects a day the month does not have.  *)

Digits == {"0", "1", "2", "3", "4", "5", "6", "7", "8", "9"}

DigitVal(c) ==
    CASE c = "0" -> 0 [] c = "1" -> 1 [] c = "2" -> 2 [] c = "3" -> 3
      [] c = "4" -> 4 [] c = "5" -> 5 [] c = "6" -> 6 [] c = "7" -> 7
      [] c = "8" -> 8 [] c = "9" -> 9

IsDigits(s) == \A i \in 1..Len(s) : s[i] \in Digits

RECURSIVE IntOf(_)
IntOf(s) ==
    IF Len(s) = 0 THEN 0
    ELSE 10 * IntOf(SubSeq(s, 1, Len(s) - 1)) + DigitVal(s[Len(s)])

\* the day group admits " 5" as well as "5"
StripLead(s) == IF Len(s) > 0 /\ s[1] = " " THEN Tail(s) ELSE s

ReYear(s) == Len(s) = 4 /\ IsDigits(s)

ReMonth(s) ==
    /\ Len(s) \in {1, 2}
    /\ IsDigits(s)
    /\ IntOf(s) \in 1..12

ReDay(s) ==
    \/ Len(s) \in {1, 2} /\ IsDigits(s) /\ IntOf(s) \in 1..31
    \/ Len(s) = 2 /\ s[1] = " " /\ s[2] \in Digits /\ s[2] # "0"

ReHour(s) ==
    /\ Len(s) \in {1, 2}
    /\ IsDigits(s)
    /\ IntOf(s) \in 0..23

ReMinute(s) ==
    /\ Len(s) \in {1, 2}
    /\ IsDigits(s)
    /\ IntOf(s) \in 0..59

IsSpaces(s) == Len(s) >= 1 /\ \A i \in 1..Len(s) : s[i] = " "

\* A match of the regular expression on a prefix of s is given by the
\* lengths of its variable fields, sp = <<month, day, whitespace, hour, minute>>
MonthPos == 6
DayPos(sp) == MonthPos + sp[1] + 1
SpacePos(sp) == DayPos(sp) + sp[2]
HourPos(sp) == SpacePos(sp) + sp[3]
MinutePos(sp) == HourPos(sp) + sp[4] + 1
SplitEnd(sp) == MinutePos(sp) + sp[5] - 1

Field(s, pos, len) == SubSeq(s, pos, pos + len - 1)

ReMatch(s, sp) ==
    /\ SplitEnd(sp) <= Len(s)
    /\ ReYear(Field(s, 1, 4))
    /\ s[5] = "-"
    /\ ReMonth(Field(s, MonthPos, sp[1]))
    /\ s[DayPos(sp) - 1] = "-"
    /\ ReDay(Field(s, DayPos(sp), sp[2]))
    /\ IsSpaces(Field(s, SpacePos(sp), sp[3]))
    /\ ReHour(Field(s, HourPos(sp), sp[4]))
    /\ s[MinutePos(sp) - 1] = ":"
    /\ ReMinute(Field(s, MinutePos(sp), sp[5]))

ReSplits(s) ==
    {sp \in {1, 2} \X {1, 2} \X (1..Len(s)) \X {1, 2} \X {1, 2} : ReMatch(s, sp)}

\* the regular expression prefers the two-digit minute
PreferredSplit(splits) ==
    CHOOSE x \in splits : \A z \in splits : SplitEnd(z) <= SplitEnd(x)

IsLeap(y) == (y % 4 = 0 /\ y % 100 # 0) \/ y % 400 = 0

DaysInMonth(y, m) ==
    IF m = 2 THEN (IF IsLeap(y) THEN 29 ELSE 28)
    ELSE IF m \in {4, 6, 9, 11} THEN 30 ELSE 31

ValueError(fmt, arg) == [type |-> "ValueError", fmt |-> fmt, arg |-> arg]

\* the result of a step: <<>> or <<the exception>>, and <<the value>>
Raised(e) == [exc |-> <<e>>, dt |-> <<>>]

MakeDatetime(y, mo, d, h, mi) ==
    IF d > DaysInMonth(y, mo)
    THEN Raised(ValueError("day is out of range for month", <<>>))
    ELSE [exc |-> <<>>,
          dt  |-> <<[year |-> y, month |-> mo, day |-> d, hour |-> h, minute |-> mi]>>]

ParseFields(s, sp) ==
    IF SplitEnd(sp) # Len(s)
    THEN Raised(ValueError("unconverted data remains",
                           SubSeq(s, SplitEnd(sp) + 1, Len(s))))
    ELSE MakeDatetime(IntOf(Field(s, 1, 4)),
                      IntOf(Field(s, MonthPos, sp[1])),
                      IntOf(StripLead(Field(s, DayPos(sp), sp[2]))),
                      IntOf(Field(s, HourPos(sp), sp[4])),
                      IntOf(Field(s, MinutePos(sp), sp[5])))

ParseMatch(s, splits) ==
    IF splits = {}
    THEN Raised(ValueError("time data does not match format '%Y-%m-%d %H:%M'", s))
    ELSE ParseFields(s, PreferredSplit(splits))

Strptime(s) == ParseMatch(s, ReSplits(s))

--------------------------------------------------------------------------
(* The collaborators of the input resolver: the Nominatim geocoder (line    *)
(* 34), tzwhere (line 41) and pytz (lines 44-46).  They are external        *)
(* services and tables; the model gives them a small fixed world.           *)

Locations == {"Boston, MA", "Point Nemo", "Atlantis"}

\* locator.geocode(location_name): <<>> is None
Geocode(location_name) ==
    CASE location_name = "Boston, MA" -> <<[latitude |-> 42, longitude |-> -71]>>
      [] location_name = "Point Nemo" -> <<[latitude |-> -49, longitude |-> -123]>>
      [] OTHER                        -> <<>>

\* tz_finder.tzNameAt(lat, lon): <<>> is None (open ocean)
TzNameAt(lat, lon) ==
    CASE lat = 42 /\ lon = -71 -> <<"America/New_York">>
      [] OTHER                 -> <<>>

\* the UTC offset, in minutes, local_tz.localize(dt) gives the naive dt
UtcOffset(tz_name, dt) ==
    CASE tz_name = "America/New_York" ->
             (IF dt.month \in 4..10 THEN -240 ELSE -300)
      [] OTHER -> 0

\* local_dt.astimezone(utc): the same instant on the UTC calendar.  m is the
\* minute of the local month, which may fall in the month before or after
PrevYear(dt) == IF dt.month = 1 THEN dt.year - 1 ELSE dt.year
PrevMonth(dt) == IF dt.month = 1 THEN 12 ELSE dt.month - 1
NextYear(dt) == IF dt.month = 12 THEN dt.year + 1 ELSE dt.year
NextMonth(dt) == IF dt.month = 12 THEN 1 ELSE dt.month + 1

OnCalendar(y, mo, m) ==
    [year |-> y, month |-> mo, day |-> m \div 1440 + 1,
     hour |-> (m % 1440) \div 60, minute |-> m % 60]

Normalize(dt, m) ==
    IF m < 0
    THEN OnCalendar(PrevYear(dt), PrevMonth(dt),
                    m + DaysInMonth(PrevYear(dt), PrevMonth(dt)) * 1440)
    ELSE IF m >= DaysInMonth(dt.year, dt.month) * 1440
    THEN OnCalendar(NextYear(dt), NextMonth(dt),
                    m - DaysInMonth(dt.year, dt.month) * 1440)
    ELSE OnCalendar(dt.year, dt.month, m)

AsUtc(dt, offset) ==
    Normalize(dt, ((dt.day - 1) * 24 + dt.hour) * 60 + dt.minute - offset)

\* an exception raised inside a library call
LibraryError(step) == [type |-> "Exception", fmt |-> step, arg |-> <<>>]

\* where a library call of this request raises, if it is reached
Faults == {"none", "geocode", "projection", "figure", "embed_canvas", "embed_draw"}

TimeStrings ==
    { <<"2","0","2","3","-","0","1","-","0","1"," ","0","0",":","0","0">>,
      <<"2","0","2","3","-","0","7","-","0","1"," ","2","1",":","3","0">>,
      <<"2","0","2","3","-","1","-","1"," ","0",":","0">>,
      <<"2","0","2","3","/","0","1","/","0","1">>,
      <<"2","0","2","3","-","0","2","-","3","0"," ","0","0",":","0","0">> }

Failed(e) == [exc |-> <<e>>, lat |-> 0, lon |-> 0, utc |-> <<>>]

\* lines 41-46, once the date is parsed
Localize(loc, dt, tz_name) ==
    IF tz_name = <<>>
    THEN Failed(ValueError("Cannot determine timezone for this location.", <<>>))
    ELSE [exc |-> <<>>, lat |-> loc.latitude, lon |-> loc.longitude,
          utc |-> <<AsUtc(dt, UtcOffset(tz_name[1], dt))>>]

\* the timezone looked up before the date is parsed
LocalTimeZoneFirst(loc, parsed) ==
    IF TzNameAt(loc.latitude, loc.longitude) = <<>>
    THEN Failed(ValueError("Cannot determine timezone for this location.", <<>>))
    ELSE IF parsed.exc # <<>> THEN Failed(parsed.exc[1])
    ELSE Localize(loc, parsed.dt[1], TzNameAt(loc.latitude, loc.longitude))

\* lines 40-46, for the geocoded location
LocalTime(loc, parsed) ==
    IF parsed.exc # <<>> THEN Failed(parsed.exc[1])
    ELSE Localize(loc, parsed.dt[1], TzNameAt(loc.latitude, loc.longitude))

\* lines 35-46, for the geocoder's answer
Located(location_name, found, when_str) ==
    IF found = <<>>
    THEN Failed(ValueError("Location '{location_name}' not found.",
                           <<location_name>>))
    ELSE LocalTime(found[1], Strptime(when_str))

\* lines 32-46: the place name and the date string become a coordinate and
\* a UTC instant, or an exception
ResolveInput(location_name, when_str, fault) ==
    IF fault = "geocode" THEN Failed(LibraryError("geocode"))
    ELSE Located(location_name, Geocode(location_name), when_str)

\* the resolver on every input of the model
Resolution ==
    [l \in Locations, w \in TimeStrings, f \in Faults |-> ResolveInput(l, w, f)]

--------------------------------------------------------------------------
(* The star catalog, lines 22-25: rows in ascending HIP order.  ra is in   *)
(* units of 1/300 of a turn, dec in degrees, magnitude in tenths.  The      *)
(* magnitude of the second row is drawn at startup from ProbeMagnitudes.    *)

ProbeMagnitudes == {-5, 60, 61}

CatalogRows(probe) ==
    << [hip |-> 32349, magnitude |-> -14,   ra |-> 2,   dec |-> 42, proper |-> "Sirius"],
       [hip |-> 37279, magnitude |-> probe, ra |-> 3,   dec |-> 42, proper |-> ""],
       [hip |-> 91262, magnitude |-> 0,     ra |-> 4,   dec |-> 42, proper |-> ""],
       [hip |-> 97649, magnitude |-> 61,    ra |-> 2,   dec |-> 42, proper |-> ""],
       [hip |-> 113368, magnitude |-> 25,   ra |-> 152, dec |-> 10, proper |-> ""] >>

\* hipparcos.load_dataframe(f): the table before any request, no x and y columns
LoadDataframe(probe) == [rows |-> CatalogRows(probe), xy |-> <<>>]

(* proj(star_obs), lines 49-62: the zenith-centred projection of one star   *)
(* for an observer and an instant.  skyfield computes it; the model keeps   *)
(* what the program relies on, a function of (star, coordinate, instant),   *)
(* as a rotation of the sky by local sidereal time, in hundredths of the    *)
(* horizon radius.                                                          *)
Sidereal(lon, utc) ==
    (((utc.hour * 60 + utc.minute) * 300) \div 1440 + (lon * 300) \div 360) % 300

Project(row, lat, lon, utc) ==
    << ((row.ra - Sidereal(lon, utc) + 150) % 300) - 150,
       ((row.dec - lat) * 5) \div 2 >>

ProjectAll(rows, lat, lon, utc) ==
    [i \in 1..Len(rows) |-> Project(rows[i], lat, lon, utc)]

--------------------------------------------------------------------------
(* Magnitude filter and marker size, lines 63-66 *)

\* the filter with the bound excluded
IsBrightStrict(magnitude) == magnitude < limiting_magnitude * 10

\* line 63: stars['magnitude'] <= limiting_magnitude
IsBright(magnitude) == magnitude <= limiting_magnitude * 10

\* 10 ** (k / 25) for k in 0..24, in millionths
Pow10Table ==
    << 1000000, 1096478, 1202264, 1318257, 1445440, 1584893, 1737801,
       1905461, 2089296, 2290868, 2511886, 2754229, 3019952, 3311311,
       3630781, 3981072, 4365158, 4786301, 5248075, 5754399, 6309573,
       6918310, 7585776, 8317638, 9120108 >>

\* 10 ** (e / 25), in millionths, scaled by the factor k
Pow10Scaled(k, e) ==
    IF e \div 25 >= 0
    THEN k * Pow10Table[(e % 25) + 1] * Pow10(e \div 25)
    ELSE (k * Pow10Table[(e % 25) + 1]) \div Pow10(-(e \div 25))

Clamp(v, top) == IF v > top THEN top ELSE v

\* the size capped at max_star_size
ClampedMarkerSize(magnitude) ==
    Clamp(Pow10Scaled(max_star_size, -magnitude), max_star_size * 1000000)

\* line 66: max_star_size * 10 ** (mags / -2.5), in millionths; the exponent
\* of a magnitude in tenths is -magnitude / 25
MarkerSize(magnitude) == Pow10Scaled(max_star_size, -magnitude)

\* line 64: df = stars[bright].copy().reset_index(), rows with their x, y
FrameRow(row, p) ==
    [index |-> row.hip, magnitude |-> row.magnitude, proper |-> row.proper,
     x |-> p[1], y |-> p[2]]

RowIsBright(row) == IsBright(row.magnitude)

BrightFrame(rows, xy) ==
    SelectSeq([i \in 1..Len(rows) |-> FrameRow(rows[i], xy[i])], RowIsBright)

--------------------------------------------------------------------------
(* The optional Alt-Az grid, lines 80-95 *)

\* np.tan of k * 7.5 degrees for k in 0..11, in millionths
TanTable ==
    << 0, 131652, 267949, 414214, 577350, 767327, 1000000,
       1303225, 1732051, 2414214, 3732051, 7595754 >>

\* np.tan(np.radians(deg) / 2) for deg a multiple of 15 below 180
TanHalf(deg) == TanTable[deg \div 15 + 1]

\* lines 82-88: one ring and its label
Ring(alt) == [alt |-> alt, r |-> TanHalf(90 - alt), label |-> alt]

\* lines 89-95: one spoke and its label
Spoke(az) == [az |-> az, label |-> az]

Rings(alts) == [i \in 1..Len(alts) |-> Ring(alts[i])]

Spokes(azs) == [i \in 1..Len(azs) |-> Spoke(azs[i])]

\* the grid drawn whatever the checkbox says
GridAlways(draw_grid) ==
    [rings |-> Rings(Range(15, 90, 15)), spokes |-> Spokes(Range(0, 360, 30))]

AltAzGrid(draw_grid) ==
    IF draw_grid
    THEN [rings |-> Rings(Range(15, 90, 15)), spokes |-> Spokes(Range(0, 360, 30))]
    ELSE [rings |-> <<>>, spokes |-> <<>>]

--------------------------------------------------------------------------
(* The figure, lines 68-130 *)

\* lines 102-107: the annotation starts empty and hidden
NewAnnot == [visible |-> FALSE, text |-> <<>>, xy |-> <<0, 0>>]

Sizes(df) == [i \in 1..Len(df) |-> MarkerSize(df[i].magnitude)]

Figure(df, draw_grid) ==
    [df |-> df, sizes |-> Sizes(df), grid |-> AltAzGrid(draw_grid), annot |-> NewAnnot]

--------------------------------------------------------------------------
(* Embedding the figure in canvas_frame, lines 132-138 *)

\* the widget FigureCanvasTkAgg(fig, master=canvas_frame) creates
CanvasWidget(req, fig) == [req |-> req, packed |-> FALSE, fig |-> fig]

\* lines 135-137 on the frame's children as the loop of lines 133-134 left them
EmbedIn(kept, w, fault) ==
    IF fault = "embed_canvas"                      \* line 135 raises
    THEN [exc |-> <<LibraryError("FigureCanvasTkAgg")>>, children |-> kept]
    ELSE IF fault = "embed_draw"                   \* line 136 raises
    THEN [exc |-> <<LibraryError("canvas.draw")>>, children |-> Append(kept, w)]
    ELSE [exc |-> <<>>,                            \* line 137
          children |-> Append(kept, [w EXCEPT !.packed = TRUE])]

\* lines 133-134 destroy every child of the frame
Embed(ch, req, fig, fault) == EmbedIn(<<>>, CanvasWidget(req, fig), fault)

--------------------------------------------------------------------------
(* generate_star_chart, lines 30-141: the body of the try block.  The       *)
(* result is the exception that left the block (<<>> for none) and the      *)
(* catalog table and display area as the block left them.                   *)

Outcome(exc, st, ch) == [exc |-> exc, stars |-> st, children |-> ch]

\* lines 132-138
Embedded(emb, st) == Outcome(emb.exc, st, emb.children)

\* lines 63-138, with the x and y columns written
Render(st, draw_grid, fault, ch, req) ==
    IF fault = "figure"                            \* lines 69-130 raise
    THEN Outcome(<<LibraryError("figure")>>, st, ch)
    ELSE Embedded(Embed(ch, req,
                        Figure(BrightFrame(st.rows, st.xy[1]), draw_grid), fault),
                  st)

\* the x and y columns reused once they exist
ProjectStale(st, res) ==
    IF st.xy # <<>> THEN st
    ELSE [st EXCEPT !.xy = <<ProjectAll(st.rows, res.lat, res.lon, res.utc[1])>>]

\* lines 61-62: stars['x'], stars['y'] = proj(star_obs)
ProjectInto(st, res) ==
    [st EXCEPT !.xy = <<ProjectAll(st.rows, res.lat, res.lon, res.utc[1])>>]

\* lines 48-138, for a resolved input
Chart(res, draw_grid, fault, st, ch, req) ==
    IF res.exc # <<>> THEN Outcome(res.exc, st, ch)
    ELSE IF fault = "projection"                   \* lines 49-62 raise
    THEN Outcome(<<LibraryError("projection")>>, st, ch)
    ELSE Render(ProjectInto(st, res), draw_grid, fault, ch, req)

TryBlock(location_name, when_str, draw_grid, fault, st, ch, req) ==
    Chart(Resolution[location_name, when_str, fault], draw_grid, fault, st, ch, req)

\* a handler for ValueError alone
CatchesValueErrorOnly(e) == e.type = "ValueError"

\* line 140: except Exception as e
Catches(e) == e.type \in {"ValueError", "Exception"}

\* line 141: str(e), the text of the dialog
Str(e) == [fmt |-> e.fmt, arg |-> e.arg]

--------------------------------------------------------------------------
(* The hover callback, lines 109-130 *)

\* the pick region of one marker: scatter.contains(event), line 120
HitRadius2(size) == size \div 100000000 + 1

Dist2(ex, ey, x, y) == (ex - x) * (ex - x) + (ey - y) * (ey - y)

Contains(fig, i, event) ==
    Dist2(event.x, event.y, fig.df[i].x, fig.df[i].y) <= HitRadius2(fig.sizes[i])

\* ind["ind"]: the markers under the pointer, in ascending row order
HitIndices(fig, event) ==
    LET hit(i) == Contains(fig, i, event)
    IN  SelectSeq([i \in 1..Len(fig.df) |-> i], hit)

\* f"{v:.2f}" of a magnitude held in tenths
Format2f(magnitude) ==
    [neg |-> magnitude < 0, whole |-> Abs(magnitude) \div 10,
     frac |-> (Abs(magnitude) % 10) * 10]

\* lines 113-116: the text of the tooltip for one row of df
TooltipText(row) ==
    [name |-> IF row.proper # "" THEN [text |-> row.proper, hip |-> <<>>]
              ELSE [text |-> "HIP ", hip |-> <<row.index>>],
     mag  |-> Format2f(row.magnitude)]

\* lines 109-116, then line 123
ShowAnnot(annot, row) ==
    [visible |-> TRUE, text |-> <<TooltipText(row)>>, xy |-> <<row.x, row.y>>]

UpdateAnnot(fig, ind) == ShowAnnot(fig.annot, fig.df[ind[1]])

\* lines 120-128, for the markers under the pointer
HoverHits(fig, ind) ==
    IF ind # <<>>
    THEN [fig EXCEPT !.annot = UpdateAnnot(fig, ind)]
    ELSE IF fig.annot.visible
         THEN [fig EXCEPT !.annot.visible = FALSE]
         ELSE fig

\* lines 118-128: the figure after one motion event
HoverFig(fig, event) ==
    IF event.inaxes THEN HoverHits(fig, HitIndices(fig, event)) ELSE fig

\* the motion events of the model: pointer positions inside the axes, and
\* one event outside them (event.inaxes is None)
PointerPositions == {<<0, 0>>, <<1, 0>>, <<2, 0>>, <<60, 60>>}

MotionEvents ==
    {[inaxes |-> TRUE, x |-> p[1], y |-> p[2]] : p \in PointerPositions}
      \cup {[inaxes |-> FALSE, x |-> 0, y |-> 0]}

--------------------------------------------------------------------------
(* The program *)

NoRequest ==
    [req |-> 0, location |-> "", when |-> <<>>, grid |-> FALSE,
     exc |-> <<>>, dialogs |-> <<>>, propagated |-> FALSE]

Init ==
    /\ \E probe \in ProbeMagnitudes : stars = LoadDataframe(probe)
    /\ children = <<>>
    /\ grid_var = 0
    /\ last = NoRequest
    /\ lastSuccess = <<>>
    /\ reqCount = 0
    /\ lastEvent = <<>>

\* the user ticks or unticks the grid checkbox, lines 165-167
ToggleGrid ==
    /\ grid_var' = 1 - grid_var
    /\ UNCHANGED <<stars, children, last, lastSuccess, reqCount, lastEvent>>

\* the user presses the button: lines 169-173 call generate_star_chart with
\* the contents of the two entries and the checkbox
Generate ==
    /\ reqCount < MaxRequests
    /\ \E location_name \in Locations, when_str \in TimeStrings, fault \in Faults :
         \E r \in {TryBlock(location_name, when_str, grid_var = 1, fault,
                            stars, children, reqCount + 1)} :
           /\ stars' = r.stars
           /\ children' = r.children
           /\ last' = [req |-> reqCount + 1, location |-> location_name,
                       when |-> when_str, grid |-> (grid_var = 1), exc |-> r.exc,
                       dialogs |-> IF r.exc # <<>> /\ Catches(r.exc[1])
                                   THEN <<Str(r.exc[1])>> ELSE <<>>,
                       propagated |-> (r.exc # <<>> /\ ~Catches(r.exc[1]))]
           /\ lastSuccess' = IF r.exc = <<>>
                             THEN <<[req |-> reqCount + 1, location |-> location_name,
                                     when |-> when_str, grid |-> (grid_var = 1)]>>
                             ELSE lastSuccess
           /\ lastEvent' = IF r.children = children THEN lastEvent ELSE <<>>
    /\ reqCount' = reqCount + 1
    /\ UNCHANGED grid_var

\* the pointer moves over a displayed chart: its canvas calls hover
Hover ==
    /\ \E i \in 1..Len(children), event \in MotionEvents :
         /\ children[i].packed
         /\ children' = [children EXCEPT ![i].fig = HoverFig(children[i].fig, event)]
         /\ lastEvent' = <<event>>
    /\ UNCHANGED <<stars, grid_var, last, lastSuccess, reqCount>>

Next == ToggleGrid \/ Generate \/ Hover

Spec == Init /\ [][Next]_vars

--------------------------------------------------------------------------
(* What the display area shows: the packed widgets of canvas_frame *)

IsPacked(w) == w.packed

Displayed == SelectSeq(children, IsPacked)

\* the step is one call of generate_star_chart
IsRequest == reqCount' = reqCount + 1

\* the row of the catalog table a row of df was taken from
CatalogRowOf(hip) == CHOOSE i \in 1..Len(stars.rows) : stars.rows[i].hip = hip

IsPlotted(fig, hip) == \E j \in 1..Len(fig.df) : fig.df[j].index = hip

--------------------------------------------------------------------------
(* C1: a generation request that fails at any step leaves the display area  *)
(* holding exactly what it held before the request.                         *)
C1_FailedRequestKeepsDisplay ==
    [][(IsRequest /\ last'.exc # <<>>) => Displayed' = Displayed]_vars

--------------------------------------------------------------------------
(* C2: the date string and the time-parse failure *)

\* the shape YYYY-MM-DD HH:MM, every field zero-padded
MatchesPattern(s) ==
    /\ Len(s) = 16
    /\ \A i \in {1, 2, 3, 4, 6, 7, 9, 10, 12, 13, 15, 16} : s[i] \in Digits
    /\ s[5] = "-" /\ s[8] = "-" /\ s[11] = " " /\ s[14] = ":"

TimeParseMessages ==
    {"time data does not match format '%Y-%m-%d %H:%M'",
     "unconverted data remains", "day is out of range for month"}

ShowsTimeParseFailure(r) ==
    /\ Len(r.dialogs) = 1
    /\ r.dialogs[1].fmt \in TimeParseMessages

\* C2 as stated: a request whose date string does not match YYYY-MM-DD HH:MM
\* surfaces the time-parse failure and leaves the chart, whatever the location.
C2_AnyLocationTimeParseError ==
    [][(IsRequest /\ ~MatchesPattern(last'.when))
          => (ShowsTimeParseFailure(last') /\ Displayed' = Displayed)]_vars

\* strptime on every date string of the model
Parsed == [w \in TimeStrings |-> Strptime(w)]

GeocoderAnswered(r) ==
    /\ Geocode(r.location) # <<>>
    /\ r.exc # <<LibraryError("geocode")>>

\* C2 amended: a request whose location the geocoder resolves and whose date
\* string strptime rejects under '%Y-%m-%d %H:%M' surfaces that rejection, and
\* only it, and leaves the displayed chart unchanged.
C2_ResolvedLocationTimeParseError ==
    [][(IsRequest /\ GeocoderAnswered(last') /\ Parsed[last'.when].exc # <<>>)
          => /\ last'.dialogs = <<Str(Parsed[last'.when].exc[1])>>
             /\ ShowsTimeParseFailure(last')
             /\ Displayed' = Displayed]_vars

C2_Witness ==
    /\ last.location = "Point Nemo"
    /\ ~MatchesPattern(last.when)
    /\ ShowsTimeParseFailure(last)
    /\ Displayed # <<>>

--------------------------------------------------------------------------
(* C3: every generation request either succeeds and shows no error dialog,  *)
(* or fails and shows exactly one dialog whose text is the message of the   *)
(* failure; no exception leaves generate_star_chart.                        *)
C3_OneOutcome ==
    reqCount > 0 =>
        /\ ~last.propagated
        /\ \/ /\ last.exc = <<>>
              /\ last.dialogs = <<>>
              /\ Len(Displayed) = 1
              /\ Displayed[1].req = last.req
           \/ /\ last.exc # <<>>
              /\ Len(last.dialogs) = 1
              /\ last.dialogs[1].fmt = last.exc[1].fmt
              /\ last.dialogs[1].arg = last.exc[1].arg
              /\ \A i \in 1..Len(Displayed) : Displayed[i].req # last.req

C3_Witness ==
    /\ reqCount > 0
    /\ last.exc # <<>>
    /\ last.exc[1].type = "Exception"
    /\ Len(last.dialogs) = 1

--------------------------------------------------------------------------
--------------------------------------------------------------------------
--------------------------------------------------------------------------
(* C6: no generation request changes the process-wide catalog table.        *)
C6_CatalogReadOnly == [][stars' = stars]_vars

--------------------------------------------------------------------------
FreshCoordinates(fig, r) ==
    \A j \in 1..Len(fig.df) :
        <<fig.df[j].x, fig.df[j].y>> =
            Project(stars.rows[CatalogRowOf(fig.df[j].index)],
                    Resolution[r.location, r.when, "none"].lat,
                    Resolution[r.location, r.when, "none"].lon,
                    Resolution[r.location, r.when, "none"].utc[1])

--------------------------------------------------------------------------
\* whether the checkbox was set for the request whose chart is shown
GridRequested(w) == lastSuccess # <<>> /\ lastSuccess[1].req = w.req /\ lastSuccess[1].grid

RingAltitudes == {15, 30, 45, 60, 75}

SpokeAzimuths == {30 * k : k \in 0..11}

GridDrawn(g) ==
    /\ Len(g.rings) = Cardinality(RingAltitudes)
    /\ {g.rings[i].alt : i \in 1..Len(g.rings)} = RingAltitudes
    /\ \A i \in 1..Len(g.rings) :
          /\ g.rings[i].label = g.rings[i].alt
          /\ g.rings[i].r = TanTable[(90 - g.rings[i].alt) \div 15 + 1]
          /\ g.rings[i].r > 0
          /\ g.rings[i].r < 1000000
    /\ \A i, j \in 1..Len(g.rings) :
          g.rings[i].alt < g.rings[j].alt => g.rings[i].r > g.rings[j].r
    /\ Len(g.spokes) = Cardinality(SpokeAzimuths)
    /\ {g.spokes[i].az : i \in 1..Len(g.spokes)} = SpokeAzimuths
    /\ \A i \in 1..Len(g.spokes) : g.spokes[i].label = g.spokes[i].az

(* C8: the grid is drawn if and only if the checkbox was set for the        *)
(* request: then one labeled ring for each altitude 15, 30, 45, 60, 75,     *)
(* of radius tan((90 - altitude) / 2), strictly decreasing in altitude and  *)
(* strictly between 0 and 1, and one labeled spoke for each azimuth 0, 30,  *)
(* ..., 330; otherwise no ring and no spoke.                                *)
C8_GridIffChecked ==
    \A w \in SeqToSet(Displayed) :
        IF GridRequested(w)
        THEN GridDrawn(w.fig.grid)
        ELSE w.fig.grid.rings = <<>> /\ w.fig.grid.spokes = <<>>

\* a chart with the grid is shown while the checkbox is no longer set
C8_Witness ==
    /\ grid_var = 0
    /\ Len(Displayed) = 1
    /\ GridRequested(Displayed[1])
    /\ Len(Displayed[1].fig.grid.rings) = 5
    /\ Len(Displayed[1].fig.grid.spokes) = 12

--------------------------------------------------------------------------
IsNearest(fig, j, event) ==
    \A k \in 1..Len(fig.df) :
        Dist2(event.x, event.y, fig.df[j].x, fig.df[j].y)
            <= Dist2(event.x, event.y, fig.df[k].x, fig.df[k].y)

(* C9: after a pointer-move event inside the chart over one or more star    *)
(* markers, the tooltip shows the name (or 'HIP <id>') and the magnitude of *)
(* the star nearest to the pointer among the markers of the chart.          *)
C9_TooltipShowsNearest ==
    \A w \in SeqToSet(Displayed) :
        (/\ lastEvent # <<>>
         /\ lastEvent[1].inaxes
         /\ HitIndices(w.fig, lastEvent[1]) # <<>>)
            => \E j \in 1..Len(w.fig.df) :
                  /\ IsNearest(w.fig, j, lastEvent[1])
                  /\ w.fig.annot.text = <<TooltipText(w.fig.df[j])>>

--------------------------------------------------------------------------
(* C10: after every pointer-move event the tooltip is visible if and only   *)
(* if the pointer of that event is inside the axes and over a star marker.  *)
C10_TooltipVisibleIffOverMarker ==
    \A w \in SeqToSet(Displayed) :
        lastEvent # <<>> =>
            (w.fig.annot.visible
                <=> (lastEvent[1].inaxes /\ HitIndices(w.fig, lastEvent[1]) # <<>>))

==========================================================================
